---- MODULE Spec2Model ----
(***************************************************************************)
(* util/make_json.py: a straight-line script that builds two lists of      *)
(* consecutive integers, wraps each in a one-key dict and json.dump()s it  *)
(* to small_file.json and large_file.json.                                 *)
(*                                                                         *)
(* The state is the interpreter's (program position, module namespace,     *)
(* heap of mutable objects, the open file with its position and unwritten  *)
(* text) together with the two files on disk.  There is one action per     *)
(* statement; open, the writes inside json.dump and the close at the end   *)
(* of the with block can each succeed or raise.                            *)
(***************************************************************************)
EXTENDS Integers, Sequences, FiniteSets, TLC

VARIABLES
  pc,        \* the statement about to run: "L<line>"; "L<line>w" inside json.dump;
             \* "L<line>x" at the end of the with block; "end" after the last line
  status,    \* "running", "done" (exit status 0) or "failed" (exit status 1)
  raised,    \* the line whose filesystem call raised in this run, "" if none did
  env,       \* module namespace: name -> object id (for i: the int itself)
  heap,      \* heap[id] = [kind |-> "list" | "dict", items |-> ...]
  outfile,   \* path of the file object bound to outfile, "" when unbound
  offset,    \* file position of outfile
  buffer,    \* text json.dump has produced that has not reached the disk yet
  openFiles, \* paths with an open file descriptor
  fs,        \* path -> [exists, data]: the files on disk
  fs0,       \* fs as it was when the current run started
  runs,      \* number of runs started so far
  prevOut    \* fs at the end of the previous run (meaningful once runs > 1)

vars == <<pc, status, raised, env, heap, outfile, offset, buffer, openFiles,
          fs, fs0, runs, prevOut>>

----------------------------------------------------------------------------
(* Program constants *)

SmallCount == 500
LargeCount == 100000
SmallPath == "small_file.json"
LargePath == "large_file.json"
Paths == {SmallPath, LargePath}

(* Bounds of the model *)

BlockSize == 65536   \* buffered text reaches the disk in writes of this size
ShortWrite == 512    \* what a failing write may have put on disk before failing
MaxRuns == 2         \* how many times in a row the script is run
JunkLen == 7         \* length of the short leftover content of a file; the
                     \* long one is this much longer than the new document

----------------------------------------------------------------------------
(* Python values *)

EmptyEnv == [x \in {} |-> 0]

Bind(f, k, v) == [x \in DOMAIN f \cup {k} |-> IF x = k THEN v ELSE f[x]]

NewObject(kind) == [kind |-> kind, items |-> <<>>]

\* A list of ints is held as its maximal runs of consecutive values:
\* [0, 1, 2, 7] is <<[lo |-> 0, hi |-> 2], [lo |-> 7, hi |-> 7]>>.
\* xs.append(v)
ListAppend(rs, v) ==
  IF rs # <<>> /\ rs[Len(rs)].hi + 1 = v
  THEN [rs EXCEPT ![Len(rs)].hi = v]
  ELSE Append(rs, [lo |-> v, hi |-> v])

\* xs.append(i) for i = lo, ..., hi in turn (the one-element set has TLC
\* work out the list after the first half before it starts the second)
RECURSIVE AppendEach(_, _, _)
AppendEach(rs, lo, hi) ==
  IF lo > hi THEN rs
  ELSE IF lo = hi THEN ListAppend(rs, lo)
  ELSE LET mid == (lo + hi) \div 2
       IN CHOOSE r \in {AppendEach(half, mid + 1, hi) :
                          half \in {AppendEach(rs, lo, mid)}} : TRUE

RECURSIVE ListLen(_)
ListLen(rs) ==
  IF rs = <<>> THEN 0
  ELSE (rs[1].hi - rs[1].lo + 1) + ListLen(Tail(rs))

\* the plain sequence of a list
RECURSIVE ListItems(_)
ListItems(rs) ==
  IF rs = <<>> THEN <<>>
  ELSE [k \in 1..(rs[1].hi - rs[1].lo + 1) |-> rs[1].lo + k - 1]
       \o ListItems(Tail(rs))

\* for i in range(n): xs.append(i)
\* (TLC works the long loop of line 29 out once and looks it up after that)
LargeList == AppendEach(<<>>, 0, LargeCount - 1)
ForRangeAppend(xs, n) ==
  IF xs = <<>> /\ n = LargeCount THEN LargeList
  ELSE AppendEach(xs, 0, n - 1)

\* faulty SetItem: the value is stored under a misspelt key
SetItem_WrongKey(items, k, v) == Append(items, [key |-> "number", val |-> v])

\* d[k] = v on an insertion-ordered dict
SetItem(items, k, v) ==
  IF \E j \in 1..Len(items) : items[j].key = k
  THEN [j \in 1..Len(items) |->
          IF items[j].key = k THEN [key |-> k, val |-> v] ELSE items[j]]
  ELSE Append(items, [key |-> k, val |-> v])

\* the dict id with the lists it refers to in place of their ids
Deref(h, id) ==
  <<>> \o [j \in 1..Len(h[id].items) |->
             [key |-> h[id].items[j].key, val |-> ListItems(h[h[id].items[j].val].items)]]

----------------------------------------------------------------------------
(* The text json.dump produces for a dict of lists of ints, with its       *)
(* default separators ", " and ": ".                                       *)

Digits == <<"0", "1", "2", "3", "4", "5", "6", "7", "8", "9">>

RECURSIVE IntRepr(_)
IntRepr(n) ==
  IF n < 0 THEN "-" \o IntRepr(-n)
  ELSE IF n < 10 THEN Digits[n + 1]
  ELSE IntRepr(n \div 10) \o Digits[(n % 10) + 1]

RECURSIVE JoinInts(_, _, _)
JoinInts(items, lo, hi) ==
  IF lo > hi THEN ""
  ELSE IF lo = hi THEN IntRepr(items[lo])
  ELSE LET mid == (lo + hi) \div 2
       IN JoinInts(items, lo, mid) \o ", " \o JoinInts(items, mid + 1, hi)

EncodeList(items) == "[" \o JoinInts(items, 1, Len(items)) \o "]"

Quote(s) == "\"" \o s \o "\""

RECURSIVE JoinPairs(_, _, _)
JoinPairs(doc, lo, hi) ==
  IF lo > hi THEN ""
  ELSE Quote(doc[lo].key) \o ": " \o EncodeList(doc[lo].val)
       \o (IF lo < hi THEN ", " ELSE "") \o JoinPairs(doc, lo + 1, hi)

Encode(doc) == "{" \o JoinPairs(doc, 1, Len(doc)) \o "}"

\* The two documents of section 3 of the spec and their texts.  TLC works
\* these out once; JsonDumps looks them up instead of encoding the same
\* 100000 numbers again in every run of the script.
Numbers(n) == <<>> \o [k \in 1..n |-> k - 1]
Document(n) == <<[key |-> "numbers", val |-> Numbers(n)]>>
SmallDoc == Document(500)
LargeDoc == Document(100000)
SmallText == Encode(SmallDoc)
LargeText == Encode(LargeDoc)
Text(path) == IF path = SmallPath THEN SmallText ELSE LargeText

JsonDumps(doc) ==
  CASE doc = SmallDoc -> SmallText
    [] doc = LargeDoc -> LargeText
    [] OTHER -> Encode(doc)

----------------------------------------------------------------------------
(* Files *)

Absent == [exists |-> FALSE, data |-> ""]
File(text) == [exists |-> TRUE, data |-> text]

RECURSIVE Junk(_)
Junk(n) ==
  IF n = 0 THEN ""
  ELSE IF n % 2 = 1 THEN "#" \o Junk(n - 1)
  ELSE LET half == Junk(n \div 2) IN half \o half

\* What a path may hold before a run: nothing, an empty file, a short
\* file, a file longer than the document about to be written.
LeftoversFor(text) ==
  {Absent, File(""), File(Junk(JunkLen)), File(Junk(Len(text) + JunkLen))}
SmallLeftovers == LeftoversFor(SmallText)
LargeLeftovers == LeftoversFor(LargeText)

\* faulty open: mode 'r+', earlier content is kept
OpenForWriting_NoTruncate(path) ==
  [file |-> IF fs[path].exists THEN fs[path] ELSE File(""), offset |-> 0]

\* faulty open: mode 'a', writes go after the earlier content
OpenForWriting_Append(path) ==
  [file |-> IF fs[path].exists THEN fs[path] ELSE File(""),
   offset |-> Len(fs[path].data)]

\* open(path, 'w'): the file is created or truncated to nothing, and the
\* file position is its start
OpenForWriting(path) == [file |-> File(""), offset |-> 0]

\* `data` after `text` is written at position `pos`
WriteAt(data, pos, text) ==
  SubSeq(data, 1, pos) \o text \o SubSeq(data, pos + Len(text) + 1, Len(data))

\* the disk after `text` is written through outfile
WriteOut(text) == [fs EXCEPT ![outfile].data = WriteAt(@, offset, text)]

\* how much of `text` a write that fails may have written already
Partial(text) == {k \in {0, ShortWrite} : k = 0 \/ k < Len(text)}

----------------------------------------------------------------------------
Init ==
  /\ pc = "L20"
  /\ status = "running"
  /\ raised = ""
  /\ env = EmptyEnv
  /\ heap = <<>>
  /\ outfile = ""
  /\ offset = 0
  /\ buffer = ""
  /\ openFiles = {}
  /\ \E s \in SmallLeftovers, l \in LargeLeftovers :
       fs = [p \in Paths |-> IF p = SmallPath THEN s ELSE l]
  /\ fs0 = fs
  /\ runs = 1
  /\ prevOut = [p \in Paths |-> Absent]

\* faulty []/{}: an object of the kind made earlier is used again
NewStmt_Alias(line, name, kind, next) ==
  /\ status = "running" /\ pc = line
  /\ LET old == {id \in 1..Len(heap) : heap[id].kind = kind}
     IN IF old = {}
        THEN /\ heap' = Append(heap, NewObject(kind))
             /\ env' = Bind(env, name, Len(heap) + 1)
        ELSE /\ heap' = heap
             /\ env' = Bind(env, name, CHOOSE id \in old : TRUE)
  /\ pc' = next
  /\ UNCHANGED <<status, raised, outfile, offset, buffer, openFiles, fs, fs0, runs, prevOut>>

\* name = []   /   name = {}
NewStmt(line, name, kind, next) ==
  /\ status = "running" /\ pc = line
  /\ heap' = Append(heap, NewObject(kind))
  /\ env' = Bind(env, name, Len(heap) + 1)
  /\ pc' = next
  /\ UNCHANGED <<status, raised, outfile, offset, buffer, openFiles, fs, fs0, runs, prevOut>>

\* for i in range(n): name.append(i)
ForStmt(line, name, n, next) ==
  /\ status = "running" /\ pc = line
  /\ heap' = [heap EXCEPT ![env[name]].items = ForRangeAppend(@, n)]
  /\ env' = IF n > 0 THEN Bind(env, "i", n - 1) ELSE env
  /\ pc' = next
  /\ UNCHANGED <<status, raised, outfile, offset, buffer, openFiles, fs, fs0, runs, prevOut>>

\* dname[key] = vname
SetItemStmt(line, dname, key, vname, next) ==
  /\ status = "running" /\ pc = line
  /\ heap' = [heap EXCEPT ![env[dname]].items = SetItem(@, key, env[vname])]
  /\ pc' = next
  /\ UNCHANGED <<status, raised, env, outfile, offset, buffer, openFiles, fs, fs0, runs, prevOut>>

\* faulty Raise: the exception is caught and dropped, the script goes on
Raise_Swallowed ==
  UNCHANGED <<pc, status, env, heap, outfile, offset, buffer, openFiles, fs0, runs, prevOut>>

\* Nothing catches the exception: the traceback is printed and the process
\* exits with status 1; its memory and descriptors are gone.
Raise ==
  /\ status' = "failed"
  /\ env' = EmptyEnv
  /\ heap' = <<>>
  /\ outfile' = ""
  /\ offset' = 0
  /\ buffer' = ""
  /\ openFiles' = {}
  /\ UNCHANGED <<pc, fs0, runs, prevOut>>

\* with open(path, 'w') as outfile:
\* (when open raises, the path is left as it was)
OpenStmt(line, path, next) ==
  /\ status = "running" /\ pc = line
  /\ \/ /\ fs' = [fs EXCEPT ![path] = OpenForWriting(path).file]
        /\ offset' = OpenForWriting(path).offset
        /\ openFiles' = openFiles \cup {path}
        /\ outfile' = path
        /\ buffer' = ""
        /\ pc' = next
        /\ UNCHANGED <<status, raised, env, heap, fs0, runs, prevOut>>
     \/ /\ raised' = pc
        /\ Raise
        /\ UNCHANGED fs

\* json.dump(name, outfile): the encoder's text goes to the file's buffer
DumpStmt(line, name, wline) ==
  /\ status = "running" /\ pc = line
  /\ buffer' = buffer \o JsonDumps(Deref(heap, env[name]))
  /\ pc' = wline
  /\ UNCHANGED <<status, raised, env, heap, outfile, offset, openFiles, fs, fs0, runs, prevOut>>

\* the with block that the json.dump at wline is in ends at
WithExitOf(wline) == IF wline = "L26w" THEN "L25x" ELSE "L33x"

\* faulty DumpFlush: a character is lost between two blocks
DumpFlush_OffByOne ==
  /\ status = "running" /\ pc \in {"L26w", "L34w"}
  /\ Len(buffer) >= BlockSize
  /\ fs' = WriteOut(SubSeq(buffer, 1, BlockSize))
  /\ offset' = offset + BlockSize
  /\ buffer' = SubSeq(buffer, BlockSize + 2, Len(buffer))
  /\ UNCHANGED <<pc, status, raised, env, heap, outfile, openFiles, fs0, runs, prevOut>>

\* Inside json.dump: once a block of text is buffered it is written to the
\* disk.  If the write raises, the with block closes the file on the way
\* out, and that close tries once more to write what the block has left.
DumpFlush ==
  /\ status = "running" /\ pc \in {"L26w", "L34w"}
  /\ Len(buffer) >= BlockSize
  /\ \/ /\ fs' = WriteOut(SubSeq(buffer, 1, BlockSize))
        /\ offset' = offset + BlockSize
        /\ buffer' = SubSeq(buffer, BlockSize + 1, Len(buffer))
        /\ UNCHANGED <<pc, status, raised, env, heap, outfile, openFiles, fs0, runs, prevOut>>
     \/ /\ raised' = pc
        /\ Raise
        /\ \E k \in Partial(SubSeq(buffer, 1, BlockSize)) \cup {BlockSize} :
             fs' = WriteOut(SubSeq(buffer, 1, k))

\* faulty DumpReturn: json.dump never returns
DumpReturn_Spin ==
  /\ status = "running" /\ pc \in {"L26w", "L34w"}
  /\ Len(buffer) < BlockSize
  /\ UNCHANGED vars

\* json.dump returns; what is left in the buffer is less than a block
DumpReturn ==
  /\ status = "running" /\ pc \in {"L26w", "L34w"}
  /\ Len(buffer) < BlockSize
  /\ pc' = WithExitOf(pc)
  /\ UNCHANGED <<status, raised, env, heap, outfile, offset, buffer, openFiles, fs, fs0, runs, prevOut>>

\* faulty WithExit: the descriptor is closed, the buffered text is dropped
WithExit_NoFlush(xline, next) ==
  /\ status = "running" /\ pc = xline
  /\ buffer' = ""
  /\ openFiles' = openFiles \ {outfile}
  /\ pc' = next
  /\ UNCHANGED <<status, raised, env, heap, outfile, offset, fs, fs0, runs, prevOut>>

\* faulty WithExit: the text is written, the descriptor stays open
WithExit_NoClose(xline, next) ==
  /\ status = "running" /\ pc = xline
  /\ fs' = WriteOut(buffer)
  /\ offset' = offset + Len(buffer)
  /\ buffer' = ""
  /\ pc' = next
  /\ UNCHANGED <<status, raised, env, heap, outfile, openFiles, fs0, runs, prevOut>>

\* End of the with block: outfile.close() writes the buffer out and
\* releases the descriptor, also when the write raises.
WithExit(xline, next) ==
  /\ status = "running" /\ pc = xline
  /\ \/ /\ fs' = WriteOut(buffer)
        /\ offset' = offset + Len(buffer)
        /\ buffer' = ""
        /\ openFiles' = openFiles \ {outfile}
        /\ pc' = next
        /\ UNCHANGED <<status, raised, env, heap, outfile, fs0, runs, prevOut>>
     \/ /\ raised' = pc
        /\ Raise
        /\ \E k \in Partial(buffer) : fs' = WriteOut(SubSeq(buffer, 1, k))

Line20 == NewStmt("L20", "snumbers", "list", "L21")
\* faulty line 21: the loop appends 1..500
Line21_OffByOne ==
  /\ status = "running" /\ pc = "L21"
  /\ heap' = [heap EXCEPT ![env["snumbers"]].items = AppendEach(@, 1, SmallCount)]
  /\ env' = Bind(env, "i", SmallCount)
  /\ pc' = "L23"
  /\ UNCHANGED <<status, raised, outfile, offset, buffer, openFiles, fs, fs0, runs, prevOut>>
Line21 == ForStmt("L21", "snumbers", SmallCount, "L23")
Line23 == NewStmt("L23", "sdata", "dict", "L24")
Line24 == SetItemStmt("L24", "sdata", "numbers", "snumbers", "L25")
Line25 == OpenStmt("L25", SmallPath, "L26")
Line26 == DumpStmt("L26", "sdata", "L26w")
Line25Exit == WithExit("L25x", "L28")
Line28 == NewStmt("L28", "lnumbers", "list", "L29")
Line29 == ForStmt("L29", "lnumbers", LargeCount, "L31")
Line31 == NewStmt("L31", "ldata", "dict", "L32")
Line32 == SetItemStmt("L32", "ldata", "numbers", "lnumbers", "L33")
Line33 == OpenStmt("L33", LargePath, "L34")
Line34 == DumpStmt("L34", "ldata", "L34w")
Line33Exit == WithExit("L33x", "end")

\* the script falls off its end: exit status 0
ExitOk ==
  /\ status = "running" /\ pc = "end"
  /\ status' = "done"
  /\ env' = EmptyEnv
  /\ heap' = <<>>
  /\ outfile' = ""
  /\ offset' = 0
  /\ UNCHANGED <<pc, raised, buffer, openFiles, fs, fs0, runs, prevOut>>

\* the generator is run again on the files its last run left
Rerun ==
  /\ status = "done" /\ runs < MaxRuns
  /\ pc' = "L20"
  /\ status' = "running"
  /\ fs0' = fs
  /\ prevOut' = fs
  /\ runs' = runs + 1
  /\ UNCHANGED <<raised, env, heap, outfile, offset, buffer, openFiles, fs>>

Next ==
  \/ Line20 \/ Line21 \/ Line23 \/ Line24
  \/ Line25 \/ Line26 \/ Line25Exit
  \/ Line28 \/ Line29 \/ Line31 \/ Line32
  \/ Line33 \/ Line34 \/ Line33Exit
  \/ DumpFlush \/ DumpReturn
  \/ ExitOk \/ Rerun

Spec == Init /\ [][Next]_vars

\* The interpreter keeps running the script until it exits.
FairSpec == Spec /\ WF_vars(Next)

----------------------------------------------------------------------------
(* Reading a file back: json.load restricted to what the script writes, an *)
(* object with one key whose value is a list of ints.  Anything else,      *)
(* a cut-off or padded text included, is no document.                      *)

Char(s, p) == SubSeq(s, p, p)

DigitOf ==
  [c \in {Digits[d] : d \in 1..10} |-> (CHOOSE d \in 1..10 : Digits[d] = c) - 1]

\* the value of the digit string s after the digits before it gave acc;
\* -1 when s holds anything but digits
RECURSIVE NatVal(_, _)
NatVal(s, acc) ==
  IF s = "" THEN acc
  ELSE LET c == Head(s)
       IN IF c \in DOMAIN DigitOf THEN NatVal(Tail(s), 10 * acc + DigitOf[c]) ELSE -1

RECURSIVE Strip(_)
Strip(s) ==
  IF s # "" /\ Head(s) = " " THEN Strip(Tail(s))
  ELSE IF s # "" /\ Char(s, Len(s)) = " " THEN Strip(SubSeq(s, 1, Len(s) - 1))
  ELSE s

Unreadable == [ok |-> FALSE, vals |-> <<>>]

ParseInt(tok) ==
  LET t == Strip(tok)
      neg == t # "" /\ Head(t) = "-"
      d == IF neg THEN Tail(t) ELSE t
      v == NatVal(d, 0)
  IN IF d = "" \/ v < 0 \/ (Len(d) > 1 /\ Head(d) = "0") THEN Unreadable
     ELSE [ok |-> TRUE, vals |-> <<IF neg THEN -v ELSE v>>]

\* the comma of s nearest to position m, looking d and more places to each
\* side; 0 when s has none
RECURSIVE CommaNear(_, _, _)
CommaNear(s, m, d) ==
  IF m + d > Len(s) /\ m - d < 1 THEN 0
  ELSE IF m + d <= Len(s) /\ Char(s, m + d) = "," THEN m + d
  ELSE IF m - d >= 1 /\ Char(s, m - d) = "," THEN m - d
  ELSE CommaNear(s, m, d + 1)

RECURSIVE ParseInts(_)
ParseInts(s) ==
  LET p == CommaNear(s, (Len(s) + 1) \div 2, 0)
  IN IF p = 0 THEN ParseInt(s)
     ELSE LET l == ParseInts(SubSeq(s, 1, p - 1))
              r == ParseInts(SubSeq(s, p + 1, Len(s)))
          IN IF l.ok /\ r.ok THEN [ok |-> TRUE, vals |-> l.vals \o r.vals]
             ELSE Unreadable

ParseList(s) ==
  LET t == Strip(s)
  IN IF Len(t) < 2 \/ Head(t) # "[" \/ Char(t, Len(t)) # "]" THEN Unreadable
     ELSE IF Strip(SubSeq(t, 2, Len(t) - 1)) = "" THEN [ok |-> TRUE, vals |-> <<>>]
     ELSE ParseInts(SubSeq(t, 2, Len(t) - 1))

\* the position of the first double quote of s at or after p; 0 if none
RECURSIVE QuoteFrom(_, _)
QuoteFrom(s, p) ==
  IF p > Len(s) THEN 0
  ELSE IF Char(s, p) = "\"" THEN p
  ELSE QuoteFrom(s, p + 1)

NoDocument == [ok |-> FALSE, key |-> "", numbers |-> <<>>]

Parse(text) ==
  IF Len(text) < 2 \/ Head(text) # "{" \/ Char(text, Len(text)) # "}"
     \/ Char(text, 2) # "\""
  THEN NoDocument
  ELSE LET q == QuoteFrom(text, 3)
       IN IF q = 0 \/ Char(text, q + 1) # ":" THEN NoDocument
          ELSE LET v == ParseList(SubSeq(text, q + 2, Len(text) - 1))
               IN IF v.ok
                  THEN [ok |-> TRUE, key |-> SubSeq(text, 3, q - 1), numbers |-> v.vals]
                  ELSE NoDocument

\* TLC parses the large text once, as it encodes it once
LargeParsed == Parse(LargeText)
JsonLoads(text) == IF text = LargeText THEN LargeParsed ELSE Parse(text)

\* what reading path back gives
ReadBack(path) == IF fs[path].exists THEN JsonLoads(fs[path].data) ELSE NoDocument

----------------------------------------------------------------------------
(* Properties *)

SmallStage == {"L25", "L26", "L26w", "L25x"}
LargeStage == {"L33", "L34", "L34w", "L33x"}
AfterSmall == {"L28", "L29", "L31", "L32"} \cup LargeStage \cup {"end"}

\* path has been opened by the current run
Opened(path) ==
  IF path = SmallPath THEN pc \in {"L26", "L26w", "L25x"} \cup AfterSmall
  ELSE pc \in {"L34", "L34w", "L33x", "end"}

IsPrefix(s, t) == Len(s) <= Len(t) /\ SubSeq(t, 1, Len(s)) = s

FieldNames(id) == [j \in 1..Len(heap[id].items) |-> heap[id].items[j].key]

\* C1: after a run without a failure, small_file.json reads back as a
\* document whose numbers are exactly 0, 1, ..., 499.
C1_SmallFileReadsBack ==
  status = "done" =>
    LET d == ReadBack(SmallPath)
    IN /\ d.ok
       /\ Len(d.numbers) = 500
       /\ \A i \in 0..499 : d.numbers[i + 1] = i

C1_Witness ==
  /\ status = "done" /\ raised = ""
  /\ ReadBack(SmallPath).ok
  /\ ReadBack(SmallPath).numbers[500] = 499

\* C2: after a run without a failure, large_file.json reads back as a
\* document whose numbers are exactly 0, 1, ..., 99999, the last being 99999.
C2_LargeFileReadsBack ==
  status = "done" =>
    LET d == ReadBack(LargePath)
    IN /\ d.ok
       /\ Len(d.numbers) = 100000
       /\ \A i \in 0..99999 : d.numbers[i + 1] = i
       /\ d.numbers[Len(d.numbers)] = 99999

C2_Witness ==
  /\ status = "done" /\ raised = ""
  /\ ReadBack(LargePath).ok
  /\ ReadBack(LargePath).numbers[100000] = 99999

\* C3: when sdata and ldata are handed to json.dump (and while it runs),
\* each is a dict with the one key "numbers" and no other.
C3_OneField ==
  status = "running" =>
    /\ pc \in {"L26", "L26w"} => FieldNames(env["sdata"]) = <<"numbers">>
    /\ pc \in {"L34", "L34w"} => FieldNames(env["ldata"]) = <<"numbers">>

C3_Witness ==
  /\ status = "running" /\ pc = "L34"
  /\ FieldNames(env["ldata"]) = <<"numbers">>
  /\ FieldNames(env["sdata"]) = <<"numbers">>

\* C4: a successful run that follows a successful run leaves both files
\* exactly as the earlier run left them.
C4_SameOutputEveryRun ==
  (status = "done" /\ runs > 1) => fs = prevOut

C4_Witness ==
  /\ status = "done" /\ runs = 2
  /\ \A p \in Paths : prevOut[p].exists /\ fs[p] = prevOut[p]

\* C5: after a successful run each file holds the full text of its document
\* and nothing else, whatever the path held before the run.
C5_FullDocumentOnly ==
  status = "done" => \A p \in Paths : fs[p] = File(Text(p))

C5_Witness ==
  /\ status = "done" /\ runs = 1
  /\ ~fs0[SmallPath].exists
  /\ Len(fs0[LargePath].data) > Len(LargeText)
  /\ fs[LargePath].data = LargeText

\* C6: at most one file is open at a time, and while large_file.json is open
\* small_file.json is closed and fully written; while small_file.json is
\* open large_file.json has not been touched.
C6_OneFileAtATime ==
  /\ Cardinality(openFiles) <= 1
  /\ LargePath \in openFiles =>
       SmallPath \notin openFiles /\ fs[SmallPath] = File(SmallText)
  /\ SmallPath \in openFiles => fs[LargePath] = fs0[LargePath]

C6_Witness ==
  /\ LargePath \in openFiles
  /\ fs[SmallPath] = File(SmallText)

\* C7: once a filesystem call has raised, the run has ended as failed at the
\* line that raised, no step follows it, and a failure on small_file.json
\* leaves large_file.json as it was before the run.
C7_FailureEndsTheRun ==
  /\ [](raised # "" => status = "failed" /\ pc = raised)
  /\ [][raised = ""]_vars
  /\ [](raised \in SmallStage => fs[LargePath] = fs0[LargePath])

C7_Witness ==
  /\ status = "failed" /\ raised = "L25x"
  /\ fs0[LargePath].exists /\ fs[LargePath] = fs0[LargePath]

\* C8: a run always ends, with success unless a filesystem call raised;
\* at its successful end both files exist and are closed with nothing left
\* to write; the loops ran 500 and 100000 times.
C8_RunTerminates ==
  /\ (status = "running") ~> (status = "done" \/ raised # "")
  /\ [](status = "done" =>
          /\ pc = "end" /\ raised = ""
          /\ openFiles = {} /\ buffer = ""
          /\ \A p \in Paths : fs[p].exists)
  /\ [](status = "running" /\ pc = "L23" =>
          ListLen(heap[env["snumbers"]].items) = 500 /\ env["i"] = 499)
  /\ [](status = "running" /\ pc = "L31" =>
          ListLen(heap[env["lnumbers"]].items) = 100000 /\ env["i"] = 99999)

C8_Witness ==
  /\ status = "done" /\ pc = "end"
  /\ openFiles = {}
  /\ \A p \in Paths : fs[p].exists

\* C9: from the close of small_file.json to the end of the run, also a
\* failed end, small_file.json holds its full document, and while the
\* script runs snumbers is 0..499 and the large list and dict are objects
\* of their own.
C9_SmallOutputUntouched ==
  pc \in AfterSmall =>
    /\ fs[SmallPath] = File(SmallText)
    /\ status = "running" =>
         /\ ListItems(heap[env["snumbers"]].items) = Numbers(500)
         /\ "lnumbers" \in DOMAIN env => env["lnumbers"] # env["snumbers"]
         /\ "ldata" \in DOMAIN env => env["ldata"] # env["sdata"]

C9_Witness ==
  /\ status = "failed" /\ raised = "L34w"
  /\ fs[LargePath].data # ""
  /\ fs[SmallPath] = File(SmallText)

\* C10: in every state a file the run has not opened holds what it held
\* before the run, and a file the run has opened holds a prefix of its
\* document's text (possibly empty, possibly all of it).
C10_OldContentOrPrefix ==
  \A p \in Paths :
    IF Opened(p) THEN fs[p].exists /\ IsPrefix(fs[p].data, Text(p))
    ELSE fs[p] = fs0[p]

C10_Witness ==
  /\ status = "failed" /\ raised = "L34w"
  /\ Len(fs0[LargePath].data) > Len(LargeText)
  /\ Len(fs[LargePath].data) > 0
  /\ Len(fs[LargePath].data) < Len(LargeText)
  /\ IsPrefix(fs[LargePath].data, LargeText)
====
